---- MODULE Spec2Model ----
(***************************************************************************)
(* Model of net/server.py (TerrariaServer): the start-up sequence, the     *)
(* accept loop, the readiness pump with the protocol step, and the         *)
(* simulation loop.  Sockets, the connection registry, the message sender, *)
(* the handler service, the world and the timers are collaborators that    *)
(* live outside server.py; they are modelled by their documented           *)
(* contracts.                                                              *)
(***************************************************************************)
EXTENDS Integers, Sequences, FiniteSets, TLC

(* ------------------------------ bounds --------------------------------- *)
\* number of client sockets that may ever connect
NumSocks == 2
\* number of simulation-loop iterations explored
MaxUpdates == 2
\* number of world events delivered to the server's handlers
MaxEvents == 2

(* ------------------------- program constants --------------------------- *)
\* FPS = 60
FPS == 60
\* len(header) < 4
HeaderSize == 4
\* updateTimer.getTicks() > 3600.0
FullSyncThreshold == 3600
\* 1000.0 / FPS
MsPerSecond == 1000
\* self.world.update(1.0)
TickDelta == 1

Socks == 1..NumSocks
\* findConnection's "not found" result (None)
NoConn == 0

\* The byte streams a client may put on the wire.  Each is one frame of the
\* wire protocol (4-byte little-endian length, type byte, body) or a
\* malformed variant of one.
Scripts ==
  { <<2, 0, 0, 0, 1, 170>>,          \* L = 2: type 1, body AA
    <<1, 0, 0, 0, 7>>,               \* L = 1: type 7, empty body
    <<0, 0, 0, 0>>,                  \* L = 0: empty payload
    <<255, 255, 255, 255>> }         \* L = -1: negative length

\* The sizes of the pieces in which a client's bytes may arrive: less than
\* a header (two pieces of 2 make a header, 2 and 3 a header and one byte of
\* body), or all that is left (Take stops at the end).
\* What arrives before accept() returns is seen by the server exactly as if
\* it had arrived just after, so the clients act on accepted sockets.
Segments == {2, 3, 6}

\* The timers are kept in units of 1/FPS ms, so that the frame budget
\* 1000.0 / FPS ms is the whole number MsPerSecond of units.
Budget == MsPerSecond
SyncUnits == FullSyncThreshold * FPS

\* how long a piece of work on the simulation thread may take (timer
\* units): no time, 1 ms, exactly the full-sync threshold, 1 ms more
WorkTimes == {0, FPS, SyncUnits, SyncUnits + FPS}

\* the world events the server subscribes to in __init__
Kinds == {"item", "projectile", "tileSquare"}
\* what an event carries: an object, or None
Payloads == {"object", "None"}

VARIABLES
  networkState,   \* self.networkState
  isRunning,      \* self.isRunning
  mainPc,         \* position of the thread that called start()
  readPc,         \* position of the __readThread thread
  acceptPc,       \* position of the __acceptLoop thread
  registry,       \* connectionManager: the registered connections (by socket)
  clientNumber,   \* ConnectionInfo.clientNumber of each socket, 0 = none
  nextClientId,   \* connectionManager.getNewClientId counter
  sockState,      \* per client socket: "unconnected", "pending", "accepted"
  wire,           \* bytes the client has sent that have not yet arrived
  rcvbuf,         \* bytes arrived at the server and not yet read
  peer,           \* "open" or "closed" (the client has closed its end)
  socketList,     \* __readThread: snapshot handed to select
  toErr,          \* __readThread: socketsWithError not yet iterated
  toRead,         \* __readThread: socketsToRead not yet iterated
  cur,            \* __doProtocol: [sock, conn, msgLen] of the step in progress
  updateTicks,    \* updateTimer.getTicks(), in units of 1/FPS ms
  fpsTicks,       \* fpsTimer.getTicks(), in units of 1/FPS ms
  iter,           \* history of the current pump iteration
  hist            \* history of the whole run

vars == << networkState, isRunning, mainPc, readPc, acceptPc, registry,
           clientNumber, nextClientId, sockState, wire, rcvbuf, peer,
           socketList, toErr, toRead, cur, updateTicks, fpsTicks, iter, hist >>

netVars == << registry, clientNumber, nextClientId, sockState, wire, rcvbuf,
              peer >>
pumpVars == << socketList, toErr, toRead, cur, iter >>
clockVars == << updateTicks, fpsTicks >>

(* ------------------------- pure helpers -------------------------------- *)
Min(a, b) == IF a < b THEN a ELSE b

Take(s, n) == SubSeq(s, 1, Min(n, Len(s)))
Drop(s, n) == SubSeq(s, Min(n, Len(s)) + 1, Len(s))

\* struct.unpack('<i', header)[0]: little-endian signed 32-bit integer (the
\* top byte carries the sign: two's complement)
Unpack(header) ==
  LET top == IF header[4] >= 128 THEN header[4] - 256 ELSE header[4]
  IN header[1] + 256 * header[2] + 65536 * header[3] + 16777216 * top

\* socket.recv(n) on a socket whose buffer holds buf: at most n bytes, as
\* many as have arrived
Recv(buf, n) == Take(buf, n)

\* select reports a socket readable when bytes have arrived or the peer
\* has closed the connection
Readable(s) == rcvbuf[s] # << >> \/ peer[s] # "open"

\* ConnectionManager.findConnection(socket)
FindConnection(reg, s) == IF s \in reg THEN s ELSE NoConn

\* ConnectionManager.removeConnection(connection): idempotent
RemoveConnection(reg, c) == reg \ {c}

\* ConnectionManager.addConnection(connection)
AddConnection(reg, c) == reg \cup {c}

\* ConnectionManager.getListOfSocketsForSelect()
GetListOfSocketsForSelect(reg) == reg

(* ------------------- decisions taken by server.py ---------------------- *)
\* __setupSocket: the state assigned after the bind attempt
SetupSocket(ok) == IF ok THEN "Running" ELSE "Error"

\* a read thread that only stops once the server is closed again
ReadLoopGuardNotClosed(ns) == ns # "Closed"

\* while self.networkState == NetworkState.Running (read thread)
ReadLoopGuard(ns) == ns = "Running"

\* while self.networkState == NetworkState.Running (accept loop)
AcceptLoopGuard(ns) == ns = "Running"

\* if len(header) < 4
HeaderTooShort(header) == Len(header) < HeaderSize

\* a short-header branch that forgets the disconnect notice
OnShortHeaderSilent == [remove |-> TRUE, notify |-> FALSE]

\* the short-header branch of __doProtocol: removeConnection,
\* sendPlayerDisconnectedToOtherClients, return
OnShortHeader == [remove |-> TRUE, notify |-> TRUE]

\* a protocol step without its try/except: the exception leaves the step
OnExceptionUncaught == [remove |-> FALSE, notify |-> FALSE, escapes |-> TRUE]

\* the except branch of __doProtocol: log, removeConnection; the exception
\* does not leave __doProtocol
OnException == [remove |-> TRUE, notify |-> FALSE, escapes |-> FALSE]

\* for serr in socketsWithError: removeConnection(findConnection(serr))
OnSocketError == [remove |-> TRUE]

\* a pump that reads while error sockets are still waiting
ErrorsAnyTime(pendingErr) == TRUE

\* the for loop over socketsToRead starts after the one over
\* socketsWithError has finished
ErrorsFirst(pendingErr) == pendingErr = {}

\* if self.updateTimer.getTicks() > 3600.0
FullSyncDueAtThreshold(ticks) == ticks >= SyncUnits
FullSyncDue(ticks) == ticks > SyncUnits

\* if self.fpsTimer.getTicks() < (1000.0 / FPS)
UnderBudget(ticks) == ticks < Budget

\* sleepTime = ((1000.0 / FPS) - self.fpsTimer.getTicks()) / 1000.0
SleepTime(ticks) == Budget - ticks

(* ----------------------------- histories ------------------------------- *)
Zero == [s \in Socks |-> 0]

\* what the pump did with one socket in the current iteration: times handed
\* to __doProtocol and its turn among the sockets handed, recv calls, bytes
\* of header read (-1: none), messages dispatched, removeConnection calls,
\* disconnect notices, and the exception that was raised ("" for none):
\*   "noconn"  the connection is None     "reset"   recv raised
\*   "length"  negative length            "empty"   no payload byte
\*   "handler" processMessage raised
NoWork == [handed |-> 0, turn |-> 0, recvs |-> 0, hdrLen |-> -1, disp |-> 0,
           removes |-> 0, notices |-> 0, exc |-> ""]

NoIter == [err |-> {}, read |-> {}, turns |-> 0,
           work |-> [s \in Socks |-> NoWork]]

NoCur == [sock |-> NoConn, conn |-> NoConn, msgLen |-> 0]

\* per kind of world event: how many were delivered to the handler, how
\* many of them carried an object, how many broadcasts the handler made
NoEvents == [delivered |-> 0, given |-> 0, sent |-> 0]

Init ==
  /\ networkState = "Closed"
  /\ isRunning = FALSE
  /\ mainPc = "new"
  /\ readPc = "notStarted"
  /\ acceptPc = "notStarted"
  /\ registry = {}
  /\ clientNumber = Zero
  /\ nextClientId = 1
  /\ sockState = [s \in Socks |-> "unconnected"]
  /\ wire = [s \in Socks |-> << >>]
  /\ rcvbuf = [s \in Socks |-> << >>]
  /\ peer = [s \in Socks |-> "open"]
  /\ socketList = {}
  /\ toErr = {}
  /\ toRead = {}
  /\ cur = NoCur
  /\ updateTicks = 0
  /\ fpsTicks = 0
  /\ iter = NoIter
  /\ hist = [removals |-> Zero, notices |-> Zero,
             dispatched |-> [s \in Socks |-> << >>],
             sent |-> [s \in Socks |-> << >>],
             bindFailed |-> FALSE,
             acceptCalled |-> FALSE, polled |-> FALSE,
             worldUpdates |-> 0, fullSyncs |-> 0, playerSyncs |-> 0,
             worldTime |-> 0, log |-> << >>, slept |-> << >>,
             events |-> [k \in Kinds |-> NoEvents]]

(* --------------------------- start() ----------------------------------- *)
\* start(): self.__setupSocket()
Start ==
  /\ mainPc = "new"
  /\ \E ok \in BOOLEAN :
       /\ networkState' = SetupSocket(ok)
       /\ hist' = [hist EXCEPT !.bindFailed = ~ok]
  /\ mainPc' = "startRead"
  /\ UNCHANGED << isRunning, readPc, acceptPc, netVars, pumpVars, clockVars >>

\* thread.start_new_thread(self.__readThread, ())
StartReadThread ==
  /\ mainPc = "startRead"
  /\ readPc' = "top"
  /\ mainPc' = "startAccept"
  /\ UNCHANGED << networkState, isRunning, acceptPc, netVars, pumpVars,
                  clockVars, hist >>

\* thread.start_new_thread(self.__acceptLoop, ())
StartAcceptThread ==
  /\ mainPc = "startAccept"
  /\ acceptPc' = "top"
  /\ mainPc' = "setRunning"
  /\ UNCHANGED << networkState, isRunning, readPc, netVars, pumpVars,
                  clockVars, hist >>

\* self.isRunning = True; self.__mainLoop() begins: self.updateTimer.start()
EnterMainLoop ==
  /\ mainPc = "setRunning"
  /\ isRunning' = TRUE
  /\ updateTicks' = 0
  /\ mainPc' = "loopTop"
  /\ UNCHANGED << networkState, readPc, acceptPc, netVars, pumpVars,
                  fpsTicks, hist >>

(* ------------------------- __mainLoop ---------------------------------- *)
\* self.world.update(1.0): one update of the world by the fixed delta,
\* whatever the last frame took
AdvanceCatchUp(h) ==
  LET n == IF fpsTicks > Budget THEN 2 ELSE 1
  IN [h EXCEPT !.worldUpdates = @ + n, !.worldTime = @ + n * TickDelta]
Advance(h) == [h EXCEPT !.worldUpdates = @ + 1, !.worldTime = @ + TickDelta]

\* while self.isRunning: self.fpsTimer.start(); self.world.update(1.0)
WorldUpdate ==
  /\ mainPc = "loopTop"
  /\ hist.worldUpdates < MaxUpdates
  /\ IF isRunning
       THEN \E d \in WorkTimes :
              /\ fpsTicks' = d
              /\ updateTicks' = updateTicks + d
              /\ hist' = Advance(hist)
              /\ mainPc' = "syncCheck"
       ELSE /\ mainPc' = "returned"
            /\ UNCHANGED << clockVars, hist >>
  /\ UNCHANGED << networkState, isRunning, readPc, acceptPc, netVars,
                  pumpVars >>

\* if updateTimer.getTicks() > 3600.0: sendWorldUpdateToAllClients,
\* syncPlayers, updateTimer.start()
FullSync ==
  /\ mainPc = "syncCheck"
  /\ IF FullSyncDue(updateTicks)
       THEN \E d \in WorkTimes :
              /\ hist' = [hist EXCEPT !.fullSyncs = @ + 1,
                                      !.playerSyncs = @ + 1,
                                      !.log = @ \o <<"world", "players">>]
              /\ updateTicks' = 0
              /\ fpsTicks' = fpsTicks + d
       ELSE UNCHANGED << clockVars, hist >>
  /\ mainPc' = "fpsCheck"
  /\ UNCHANGED << networkState, isRunning, readPc, acceptPc, netVars,
                  pumpVars >>

\* if fpsTimer.getTicks() < 1000.0 / FPS: sleepTime = ...; time.sleep(sleepTime)
\* d is the time that passes between the two reads of the timer; time.sleep
\* raises on a negative argument, which ends the thread
FrameSleep ==
  /\ mainPc = "fpsCheck"
  /\ IF UnderBudget(fpsTicks)
       THEN \E d \in WorkTimes :
              LET sleepTime == SleepTime(fpsTicks + d) IN
              /\ hist' = [hist EXCEPT !.slept = Append(@, sleepTime)]
              /\ IF sleepTime < 0
                   THEN /\ mainPc' = "dead"
                        /\ fpsTicks' = fpsTicks + d
                        /\ updateTicks' = updateTicks + d
                   ELSE /\ mainPc' = "loopTop"
                        /\ fpsTicks' = fpsTicks + d + sleepTime
                        /\ updateTicks' = updateTicks + d + sleepTime
       ELSE /\ mainPc' = "loopTop"
            /\ UNCHANGED << clockVars, hist >>
  /\ UNCHANGED << networkState, isRunning, readPc, acceptPc, netVars,
                  pumpVars >>

(* ----------------------- the world's events ---------------------------- *)
\* if item:
ItemGivenAlways(item) == TRUE
ItemGiven(item) == item # "None"

\* if projectile:
ProjectileGiven(projectile) == projectile # "None"

\* events are delivered while the bound on their number allows
EventsLeft ==
  hist.events["item"].delivered + hist.events["projectile"].delivered
    + hist.events["tileSquare"].delivered < MaxEvents

\* the history after the handler of an event of kind k has run for the
\* given payload and has made `sends` broadcasts
Handled(h, k, payload, sends) ==
  [h EXCEPT !.events[k] = [delivered |-> @.delivered + 1,
                           given |-> IF payload # "None"
                                       THEN @.given + 1 ELSE @.given,
                           sent |-> @.sent + sends]]

\* __itemCreatedEventHandler(eventArgs): buildItemInfoMessage and
\* sendMessageToAllClients, if eventArgs.item
ItemCreatedEventHandler ==
  /\ EventsLeft
  /\ \E item \in Payloads :
       hist' = Handled(hist, "item", item, IF ItemGiven(item) THEN 1 ELSE 0)
  /\ UNCHANGED << networkState, isRunning, mainPc, readPc, acceptPc, netVars,
                  pumpVars, clockVars >>

\* __newTileSquareEventHandler(eventArgs): sendTileSquareMessageToAllClients
NewTileSquareEventHandler ==
  /\ EventsLeft
  /\ hist' = Handled(hist, "tileSquare", "object", 1)
  /\ UNCHANGED << networkState, isRunning, mainPc, readPc, acceptPc, netVars,
                  pumpVars, clockVars >>

\* __projectileCreatedEventHandler(projectile):
\* sendProjectileMessageToAllClients if projectile, else only a log line
ProjectileCreatedEventHandler ==
  /\ EventsLeft
  /\ \E projectile \in Payloads :
       hist' = Handled(hist, "projectile", projectile,
                       IF ProjectileGiven(projectile) THEN 1 ELSE 0)
  /\ UNCHANGED << networkState, isRunning, mainPc, readPc, acceptPc, netVars,
                  pumpVars, clockVars >>

(* --------------------------- the clients ------------------------------- *)
\* self.socket is bound and listening once __setupSocket has succeeded, and
\* nothing closes it: it goes on taking connections in every state that
\* follows Running
Listening(ns) == ns \in {"Running", "Closing"}

\* a client connects to the listening socket and queues its bytes; the
\* sockets are numbered in the order in which they connect
Connect(s) ==
  /\ Listening(networkState)
  /\ sockState[s] = "unconnected"
  /\ \A r \in Socks : r < s => sockState[r] # "unconnected"
  /\ \E script \in Scripts : wire' = [wire EXCEPT ![s] = script]
  /\ sockState' = [sockState EXCEPT ![s] = "pending"]
  /\ UNCHANGED << networkState, isRunning, mainPc, readPc, acceptPc, registry,
                  clientNumber, nextClientId, rcvbuf, peer, pumpVars,
                  clockVars, hist >>

\* A client is followed while the server can still read its socket: from
\* accept() until its connection has left the registry.
Connected(s) ==
  sockState[s] = "accepted" /\ (s \in registry \/ cur.sock = s)

\* the next k bytes of the client's stream arrive at the server
Deliver(s) ==
  /\ Connected(s)
  /\ peer[s] = "open"
  /\ wire[s] # << >>
  /\ \E k \in Segments :
       /\ rcvbuf' = [rcvbuf EXCEPT ![s] = @ \o Take(wire[s], k)]
       /\ wire' = [wire EXCEPT ![s] = Drop(@, k)]
       /\ hist' = [hist EXCEPT !.sent[s] = @ \o Take(wire[s], k)]
  /\ UNCHANGED << networkState, isRunning, mainPc, readPc, acceptPc, registry,
                  clientNumber, nextClientId, sockState, peer,
                  pumpVars, clockVars >>

\* the client closes its end, having sent only what has arrived so far
PeerClose(s) ==
  /\ Connected(s)
  /\ peer[s] = "open"
  /\ peer' = [peer EXCEPT ![s] = "closed"]
  /\ wire' = [wire EXCEPT ![s] = << >>]
  /\ UNCHANGED << networkState, isRunning, mainPc, readPc, acceptPc, registry,
                  clientNumber, nextClientId, sockState, rcvbuf,
                  pumpVars, clockVars, hist >>

(* ------------------------- __acceptLoop -------------------------------- *)
\* while self.networkState == NetworkState.Running: enter self.socket.accept()
AcceptTop ==
  /\ acceptPc = "top"
  /\ IF AcceptLoopGuard(networkState)
       THEN /\ acceptPc' = "accepting"
            /\ hist' = [hist EXCEPT !.acceptCalled = TRUE]
       ELSE /\ acceptPc' = "done"
            /\ UNCHANGED hist
  /\ UNCHANGED << networkState, isRunning, mainPc, readPc, netVars, pumpVars,
                  clockVars >>

\* accept() returns a client socket: ConnectionInfo(..., getNewClientId()),
\* addConnection(connection)
Accept(s) ==
  /\ acceptPc = "accepting"
  /\ sockState[s] = "pending"
  /\ sockState' = [sockState EXCEPT ![s] = "accepted"]
  /\ clientNumber' = [clientNumber EXCEPT ![s] = nextClientId]
  /\ nextClientId' = nextClientId + 1
  /\ registry' = AddConnection(registry, s)
  /\ acceptPc' = "top"
  /\ UNCHANGED << networkState, isRunning, mainPc, readPc, wire, rcvbuf, peer,
                  pumpVars, clockVars, hist >>

(* ------------------------- __readThread -------------------------------- *)
\* while self.networkState == NetworkState.Running:
\*   socketList = self.connectionManager.getListOfSocketsForSelect()
ReadTopKeepsList ==
  /\ readPc = "top"
  /\ IF ReadLoopGuard(networkState)
       THEN /\ readPc' = "select"
            /\ socketList' = socketList \cup GetListOfSocketsForSelect(registry)
       ELSE /\ readPc' = "done"
            /\ UNCHANGED socketList
  /\ UNCHANGED << networkState, isRunning, mainPc, acceptPc, netVars, toErr,
                  toRead, cur, iter, clockVars, hist >>
ReadTop ==
  /\ readPc = "top"
  /\ IF ReadLoopGuard(networkState)
       THEN /\ readPc' = "select"
            /\ socketList' = GetListOfSocketsForSelect(registry)
       ELSE /\ readPc' = "done"
            /\ UNCHANGED socketList
  /\ UNCHANGED << networkState, isRunning, mainPc, acceptPc, netVars, toErr,
                  toRead, cur, iter, clockVars, hist >>

\* select.select(socketList, [], socketList, 0.1): the sockets of the list
\* that are readable, and those with an exceptional condition (urgent data
\* may have arrived on any of them); both empty when the timeout expires
Select ==
  /\ readPc = "select"
  /\ \E er \in SUBSET socketList :
       LET rd == {s \in socketList : Readable(s)}
       IN /\ toRead' = rd
          /\ toErr' = er
          /\ iter' = [NoIter EXCEPT !.err = er, !.read = rd]
  /\ readPc' = "loops"
  /\ hist' = [hist EXCEPT !.polled = TRUE]
  /\ UNCHANGED << networkState, isRunning, mainPc, acceptPc, netVars,
                  socketList, cur, clockVars >>

\* for serr in socketsWithError:
\*   removeConnection(findConnection(serr))
ErrStep(s) ==
  /\ readPc = "loops"
  /\ s \in toErr
  /\ toErr' = toErr \ {s}
  /\ LET c == FindConnection(registry, s)
         reg == IF OnSocketError.remove THEN RemoveConnection(registry, c)
                                        ELSE registry
     IN /\ registry' = reg
        /\ hist' = [hist EXCEPT !.removals[s] =
                      IF s \in registry /\ s \notin reg THEN @ + 1 ELSE @]
  /\ UNCHANGED << networkState, isRunning, mainPc, readPc, acceptPc,
                  clientNumber, nextClientId, sockState, wire, rcvbuf, peer,
                  socketList, toRead, cur, iter, clockVars >>

\* both for loops are over: back to the while test
IterDone ==
  /\ readPc = "loops"
  /\ toErr = {}
  /\ toRead = {}
  /\ readPc' = "top"
  /\ iter' = NoIter
  /\ UNCHANGED << networkState, isRunning, mainPc, acceptPc, netVars,
                  socketList, toErr, toRead, cur, clockVars, hist >>

(* ------------------------- __doProtocol -------------------------------- *)
\* what a finished protocol step does to the registry and the other clients
\*   kind "short": the len(header) < 4 branch
\*   kind "ok":    processMessage returned
\*   otherwise:    the except branch, kind naming the exception
Effect(kind) ==
  CASE kind = "short" -> [remove |-> OnShortHeader.remove,
                          notify |-> OnShortHeader.notify, escapes |-> FALSE]
    [] kind = "ok" -> [remove |-> FALSE, notify |-> FALSE, escapes |-> FALSE]
    [] OTHER -> OnException

\* the end of __doProtocol(c) for ready socket s; w and h are the step's
\* and the run's history up to here
EndStep(s, c, kind, w, h) ==
  LET eff == Effect(kind)
      reg == IF eff.remove THEN RemoveConnection(registry, c) ELSE registry
      told == eff.notify /\ c # NoConn
  IN /\ registry' = reg
     /\ hist' = [h EXCEPT
                   !.removals[s] = IF s \in registry /\ s \notin reg
                                     THEN @ + 1 ELSE @,
                   !.notices[s] = IF told THEN @ + 1 ELSE @]
     /\ iter' = [iter EXCEPT
                   !.turns = w.turn,
                   !.work[s] =
                     [w EXCEPT !.removes = IF eff.remove THEN @ + 1 ELSE @,
                               !.notices = IF told THEN @ + 1 ELSE @,
                               !.exc = IF kind \in {"short", "ok"}
                                         THEN "" ELSE kind]]
     /\ readPc' = IF eff.escapes THEN "dead" ELSE "loops"
     /\ cur' = NoCur

\* the for loop calls __doProtocol for one socket after the other, on the
\* read thread itself: a step starts when the one before it has returned
StepMayStartAnyTime == readPc \in {"loops", "recvBody"}
StepMayStart == readPc = "loops"

\* for s in socketsToRead: self.__doProtocol(findConnection(s)), up to and
\* including the test of the header:  header = connection.socket.recv(4)
ProtoHeader(s) ==
  /\ StepMayStart
  /\ s \in toRead
  /\ ErrorsFirst(toErr)
  /\ LET c == FindConnection(registry, s)
         w0 == [iter.work[s] EXCEPT !.handed = @ + 1,
                                    !.turn = iter.turns + 1]
         w1 == [w0 EXCEPT !.recvs = @ + 1]
     IN
     /\ c = NoConn \/ Readable(s)
     /\ toRead' = toRead \ {s}
     /\ IF c = NoConn
          THEN \* None has no attribute socket
               /\ EndStep(s, c, "noconn", w0, hist)
               /\ UNCHANGED rcvbuf
          ELSE \/ \* the connection was reset: recv raises socket.error
                  /\ EndStep(s, c, "reset", w1, hist)
                  /\ UNCHANGED rcvbuf
               \/ LET header == Recv(rcvbuf[s], HeaderSize)
                      w2 == [w1 EXCEPT !.hdrLen = Len(header)]
                  IN /\ rcvbuf' = [rcvbuf EXCEPT ![s] = Drop(@, Len(header))]
                     /\ IF HeaderTooShort(header)
                          THEN EndStep(s, c, "short", w2, hist)
                          ELSE /\ cur' = [sock |-> s, conn |-> c,
                                          msgLen |-> Unpack(header)]
                               /\ iter' = [iter EXCEPT !.turns = w2.turn,
                                                       !.work[s] = w2]
                               /\ readPc' = "recvBody"
                               /\ UNCHANGED << registry, hist >>
  /\ UNCHANGED << networkState, isRunning, mainPc, acceptPc, clientNumber,
                  nextClientId, sockState, wire, peer, socketList,
                  toErr, clockVars >>

\* socket.recv(n) on a blocking socket waits while n > 0, nothing has arrived
\* and the peer keeps its end open
RecvBlocks(s, n) == n > 0 /\ rcvbuf[s] = << >> /\ peer[s] = "open"

\* the rest of __doProtocol: connection.data = connection.socket.recv(msgLen),
\* the type byte, the Message, processMessage(message, connection).  The
\* recv blocks while nothing has arrived and the peer keeps the socket open.
ProtoBody ==
  /\ readPc = "recvBody"
  /\ LET s == cur.sock
         c == cur.conn
         len == cur.msgLen
         w == [iter.work[s] EXCEPT !.recvs = @ + 1]
     IN
     \/ \* the connection was reset: recv raises socket.error
        /\ EndStep(s, c, "reset", w, hist)
        /\ UNCHANGED rcvbuf
     \/ /\ ~RecvBlocks(s, len)
        /\ IF len < 0
             THEN \* negative buffersize in recv
                  /\ EndStep(s, c, "length", w, hist)
                  /\ UNCHANGED rcvbuf
             ELSE LET data == Recv(rcvbuf[s], len) IN
                  /\ rcvbuf' = [rcvbuf EXCEPT ![s] = Drop(@, Len(data))]
                  /\ IF data = << >>
                       THEN \* connection.data[0]: index out of range
                            EndStep(s, c, "empty", w, hist)
                       ELSE LET msg == [type |-> Head(data),
                                        body |-> Tail(data)]
                                h == [hist EXCEPT
                                        !.dispatched[s] = Append(@, msg)]
                                w2 == [w EXCEPT !.disp = @ + 1]
                            IN \E handled \in BOOLEAN :
                                 EndStep(s, c,
                                         IF handled THEN "ok" ELSE "handler",
                                         w2, h)
  /\ UNCHANGED << networkState, isRunning, mainPc, acceptPc, clientNumber,
                  nextClientId, sockState, wire, peer, socketList, toErr,
                  toRead, clockVars >>

(* ---------------------------- cancellation ---------------------------- *)
\* The program that embeds the server takes NetworkState from Running to
\* Closing: the one cancellation signal the two loops test.  No line of
\* server.py makes this assignment.
Stop ==
  /\ networkState = "Running"
  /\ networkState' = "Closing"
  /\ UNCHANGED << isRunning, mainPc, readPc, acceptPc, netVars, pumpVars,
                  clockVars, hist >>

(* --------------------------- specifications --------------------------- *)
Starting ==
  \/ Start
  \/ StartReadThread
  \/ StartAcceptThread

MainLoop ==
  \/ WorldUpdate
  \/ FullSync
  \/ FrameSleep

Clients ==
  \/ \E s \in Socks : Connect(s)
  \/ \E s \in Socks : Deliver(s)
  \/ \E s \in Socks : PeerClose(s)

WorldEvents ==
  \/ ItemCreatedEventHandler
  \/ NewTileSquareEventHandler
  \/ ProjectileCreatedEventHandler

AcceptLoop ==
  \/ AcceptTop
  \/ \E s \in Socks : Accept(s)

ReadThread ==
  \/ ReadTop
  \/ Select
  \/ \E s \in Socks : ErrStep(s)
  \/ IterDone
  \/ \E s \in Socks : ProtoHeader(s)
  \/ ProtoBody

\* the network side: start() up to the spawning of the two threads, the
\* clients, the accept loop and the read thread.  What start() does next
\* (isRunning, the simulation loop) neither reads nor writes what these use.
Next == Starting \/ Clients \/ AcceptLoop \/ ReadThread

Spec == Init /\ [][Next]_vars

\* the simulation side: start(), the two loops it spawns, the simulation
\* loop and the world's events, with no client connecting
NextMain ==
  \/ Starting \/ EnterMainLoop \/ MainLoop \/ WorldEvents
  \/ AcceptTop \/ ReadTop \/ Select \/ IterDone

SpecMain == Init /\ [][NextMain]_vars

\* the network side with a cancellation that may come at any moment
NextStop == Next \/ Stop

SpecStop == Init /\ [][NextStop]_vars

(* ------------------------------ claims --------------------------------- *)
\* the protocol step for socket s has returned in this iteration
Returned(s) == iter.work[s].handed > 0 /\ cur.sock # s

\* the other registered connections, to which a notice would go
Others(s) == registry \ {s}

\* C1: a protocol step whose header read returned fewer than 4 bytes leaves
\* the connection out of the registry, has sent one disconnect notice for
\* it, has made no second read and has dispatched nothing.
C1_ShortHeaderDisconnects ==
  \A s \in Socks :
    LET w == iter.work[s] IN
    (w.hdrLen >= 0 /\ w.hdrLen < HeaderSize) =>
       /\ s \notin registry
       /\ w.removes = 1
       /\ w.notices = 1
       /\ hist.notices[s] = 1
       /\ w.recvs = 1
       /\ w.disp = 0
       /\ cur.sock # s

\* the client sent only 2 bytes and closed, while another client is connected
C1_Witness ==
  \E s \in Socks :
    /\ iter.work[s].hdrLen = 2
    /\ hist.sent[s] = <<2, 0>>
    /\ peer[s] = "closed"
    /\ Others(s) # {}

\* the client of s has closed after a complete header announcing more body
\* bytes than it went on to send
Truncated(s) ==
  /\ peer[s] = "closed"
  /\ Len(hist.sent[s]) >= HeaderSize
  /\ Unpack(Take(hist.sent[s], HeaderSize)) > Len(hist.sent[s]) - HeaderSize

\* C2: a connection that delivered a whole header and then fewer body bytes
\* than announced is, once its protocol step has returned, out of the
\* registry, removed exactly once, announced exactly once, and nothing was
\* dispatched for it.
C2_TruncatedBodyDisconnects ==
  \A s \in Socks :
    (Truncated(s) /\ Returned(s) /\ iter.work[s].hdrLen = HeaderSize
       /\ iter.work[s].exc # "reset") =>
       /\ s \notin registry
       /\ hist.removals[s] = 1
       /\ hist.notices[s] = 1
       /\ hist.dispatched[s] = << >>

\* C3: while the server is Running the read thread never dies of an
\* exception, and every socket select reported readable is still waiting for
\* its turn or has had it, whatever happened to the sockets before it.
C3_ReadThreadSurvives ==
  networkState = "Running" =>
    /\ readPc # "dead"
    /\ readPc \in {"loops", "recvBody"} =>
         \A s \in iter.read : s \in toRead \/ iter.work[s].handed = 1

\* one connection's step ended in the except branch and the next socket of
\* the same iteration then had a message dispatched
C3_Witness ==
  \E s, r \in Socks :
    /\ iter.work[s].exc \in {"length", "empty", "handler", "reset"}
    /\ iter.work[s].turn = 1
    /\ iter.work[r].turn = 2
    /\ iter.work[r].disp = 1
    /\ readPc = "loops"

\* the stream of s is exactly one whole frame with a valid length prefix
WholeFrame(s) ==
  /\ Len(hist.sent[s]) > HeaderSize
  /\ Unpack(Take(hist.sent[s], HeaderSize)) = Len(hist.sent[s]) - HeaderSize

\* the message the frame sent by s encodes
FrameMessage(s) ==
  [type |-> hist.sent[s][HeaderSize + 1],
   body |-> SubSeq(hist.sent[s], HeaderSize + 2, Len(hist.sent[s]))]

\* C4: for a client that sent one whole valid frame, every message
\* dispatched for it is the frame's message (type = first payload byte, body
\* = the other L-1 bytes), and once the step that read its header has
\* returned, exactly that one message has been dispatched.
C4_FrameDecodes ==
  \A s \in Socks :
    WholeFrame(s) =>
      /\ \A i \in 1..Len(hist.dispatched[s]) :
           hist.dispatched[s][i] = FrameMessage(s)
      /\ (Returned(s) /\ iter.work[s].hdrLen = HeaderSize
            /\ iter.work[s].exc # "reset") =>
           hist.dispatched[s] = << FrameMessage(s) >>

\* C5: NetworkState becomes Running or Error only from Starting.
C5_StartingFirst ==
  [][ (networkState' # networkState /\ networkState' \in {"Running", "Error"})
        => networkState = "Starting" ]_vars

\* C6: after a failed bind the state is Error and stays so, no accept call
\* and no poll are ever made, and the registry stays empty.
C6_BindFailureStopsNetwork ==
  hist.bindFailed =>
    /\ networkState = "Error"
    /\ ~hist.acceptCalled
    /\ ~hist.polled
    /\ registry = {}
    /\ acceptPc \in {"notStarted", "top", "done"}
    /\ readPc \in {"notStarted", "top", "done"}

\* the bind failed and both loops have been started and have left again
C6_Witness ==
  hist.bindFailed /\ acceptPc = "done" /\ readPc = "done"

\* C7: after a failed bind start() does not set isRunning, world.update is
\* never called and no full sync is sent.
C7_BindFailureStopsSimulation ==
  hist.bindFailed =>
    /\ ~isRunning
    /\ hist.worldUpdates = 0
    /\ hist.fullSyncs = 0

\* C8: a socket of the error set is not handed to the protocol step in that
\* iteration, nothing is read from it and nothing is dispatched for it, and
\* once the error loop has passed it, it is out of the registry.
C8_ErrorSocketUntouched ==
  \A s \in iter.err :
    /\ s \notin toErr => s \notin registry
    /\ iter.work[s].handed = 0
    /\ iter.work[s].recvs = 0
    /\ iter.work[s].disp = 0

\* C9: no socket is handed to the protocol step while a socket of the error
\* set is still waiting, and none is handed to it twice in one iteration.
C9_ErrorsBeforeReads ==
  /\ \A s \in Socks : iter.work[s].handed <= 1
  /\ (readPc = "recvBody" \/ \E s \in Socks : iter.work[s].handed > 0)
       => toErr = {}

\* one socket was in the error set and has been removed, another was in the
\* read set and has had its protocol step
C9_Witness ==
  \E s, r \in Socks :
    /\ s # r
    /\ s \in iter.err /\ s \notin registry
    /\ r \in iter.read /\ iter.work[r].handed = 1 /\ iter.work[r].recvs > 0

\* C10: a connection whose protocol step raised a decode or handler
\* exception is out of the registry and its disconnect has been announced.
C10_ProtocolErrorAnnounced ==
  \A s \in Socks :
    iter.work[s].exc \in {"length", "empty", "handler"} =>
      /\ s \notin registry
      /\ iter.work[s].notices >= 1

\* C11: once NetworkState has left Running, each of the two loops has left
\* its while loop or can go on towards the test of its guard without any
\* client connecting or sending: the accept loop can take a step, and the
\* read thread is not waiting in a read for bytes of a silent client.
C11_LoopsExitAfterStop ==
  networkState = "Closing" =>
    /\ acceptPc \in {"notStarted", "done"} \/ ENABLED AcceptLoop
    /\ readPc = "recvBody" => ~RecvBlocks(cur.sock, cur.msgLen)

\* C12: while sockets of the read set are still waiting for their turn, the
\* read thread is never in a read that only further bytes from the client
\* can end: at the read of the body, that read can return at once.
C12_NoReadBlocks ==
  (readPc = "recvBody" /\ toRead # {}) => ~RecvBlocks(cur.sock, cur.msgLen)

\* C13: the step of the simulation loop that tests the update timer sends,
\* when the timer is above 3600 ms, the world-state broadcast and then the
\* player sync and nothing else, and restarts the timer; when it is not, and
\* in every other step, no broadcast of either kind is sent.
C13_FullSyncExactlyWhenDue ==
  [][ IF /\ mainPc = "syncCheck"
         /\ mainPc' # mainPc
         /\ updateTicks > FullSyncThreshold * FPS
        THEN /\ hist'.log = hist.log \o <<"world", "players">>
             /\ updateTicks' = 0
             /\ mainPc' = "fpsCheck"
        ELSE hist'.log = hist.log ]_vars

\* two iterations are over, the timer crossed the threshold in one of them,
\* and one broadcast of each kind has been sent
C13_Witness ==
  /\ hist.worldUpdates = 2
  /\ mainPc = "loopTop"
  /\ hist.log = <<"world", "players">>

\* C14: the step of the simulation loop that tests the frame timer goes
\* straight on to the next iteration, without a sleep and without time
\* passing, when the tick work took the budget or more; when it took less
\* it sleeps once and the frame (work and sleep) has lasted exactly the
\* budget when the next iteration starts.
C14_SleepFillsBudget ==
  [][ (mainPc = "fpsCheck" /\ mainPc' # mainPc) =>
        IF fpsTicks >= MsPerSecond
          THEN /\ mainPc' = "loopTop"
               /\ hist'.slept = hist.slept
               /\ fpsTicks' = fpsTicks
          ELSE /\ mainPc' = "loopTop"
               /\ Len(hist'.slept) = Len(hist.slept) + 1
               /\ fpsTicks' = MsPerSecond ]_vars

\* C15: a protocol step starts only when no other is in progress, and bytes
\* of a connection are read only by the protocol step that is running for
\* that very connection on the read thread.
C15_OneStepPerConnection ==
  [][ \A s \in Socks :
        /\ iter'.work[s].handed > iter.work[s].handed =>
             (readPc = "loops" /\ cur = NoCur)
        /\ Len(rcvbuf'[s]) < Len(rcvbuf[s]) =>
             \/ readPc = "loops" /\ iter'.work[s].handed = iter.work[s].handed + 1
             \/ readPc = "recvBody" /\ cur.sock = s ]_vars

\* the read thread is between the two reads of one connection while the
\* accept loop has registered another connection since the poll
C15_Witness ==
  /\ readPc = "recvBody"
  /\ \E r \in Socks : r # cur.sock /\ r \in registry /\ r \notin socketList

\* C16: once a connection has been removed from the registry, no message is
\* dispatched for it any more and its socket is in no socket list that the
\* read thread builds for a poll.
C16_RemovedStaysOut ==
  [][ \A s \in Socks :
        hist.removals[s] > 0 =>
          /\ hist'.dispatched[s] = hist.dispatched[s]
          /\ readPc' = "select" => s \notin socketList' ]_vars

\* a connection has been removed and the read thread is about to poll the
\* sockets of the connections that are left
C16_Witness ==
  /\ readPc = "select"
  /\ socketList # {}
  /\ \E s \in Socks : hist.removals[s] = 1 /\ s \notin socketList

\* C17: the step that opens an iteration of the simulation loop makes one
\* world update by the delta 1.0 and leads to the full-sync check; no other
\* step updates the world, and there are never more full syncs or sleeps
\* than world updates.
C17_OneUpdatePerIteration ==
  [][ /\ IF mainPc = "loopTop" /\ mainPc' = "syncCheck"
           THEN /\ hist'.worldUpdates = hist.worldUpdates + 1
                /\ hist'.worldTime = hist.worldTime + 1
           ELSE /\ hist'.worldUpdates = hist.worldUpdates
                /\ hist'.worldTime = hist.worldTime
      /\ (mainPc = "loopTop" /\ mainPc' # mainPc /\ isRunning) =>
           mainPc' = "syncCheck"
      /\ hist'.fullSyncs <= hist'.worldUpdates
      /\ Len(hist'.slept) <= hist'.worldUpdates ]_vars

\* an iteration that overran its budget (it did not sleep) has been
\* followed by the one world update of the next iteration
C17_Witness ==
  /\ hist.worldUpdates = 2
  /\ hist.worldTime = 2
  /\ hist.slept = << >>
  /\ mainPc = "syncCheck"

\* C18: for each kind of world event, the handlers have made exactly as
\* many broadcasts as events were delivered.
C18_OneBroadcastPerEvent ==
  \A k \in Kinds : hist.events[k].sent = hist.events[k].delivered

\* C18, amended: the new-tile-square handler has made one broadcast per
\* event delivered; the item and projectile handlers have made one per
\* event that carried an item or a projectile, and none for the others.
C18_OneBroadcastPerGivenPayload ==
  /\ hist.events["tileSquare"].sent = hist.events["tileSquare"].delivered
  /\ hist.events["item"].sent = hist.events["item"].given
  /\ hist.events["projectile"].sent = hist.events["projectile"].given

\* an item event with an item and one without have been delivered
C18_Witness ==
  /\ hist.events["item"].delivered = 2
  /\ hist.events["item"].given = 1
  /\ hist.events["item"].sent = 1

\* C19: no argument passed to time.sleep is negative.
C19_SleepNeverNegative ==
  \A i \in 1..Len(hist.slept) : hist.slept[i] >= 0

\* C20: a connection is added to the registry only in a step taken while
\* NetworkState is Running.
C20_AddOnlyWhileRunning ==
  [][ registry' \ registry # {} => networkState = "Running" ]_vars

====
